---- MODULE Spec2Model ----
(***************************************************************************)
(* FILETREEFORGE: marker-aware tree parser, structure validator,           *)
(* operation extractor, safe-order executor and the apply / preview        *)
(* commands.                                                               *)
(*                                                                         *)
(* Strings are sequences of characters.  A character is a one-letter       *)
(* string; the three box-drawing characters are written "BRANCH" (U+251C), *)
(* "CORNER" (U+2514), "PIPE" (U+2502) and "DASH" (U+2500).  Paths follow   *)
(* the POSIX flavour of node's path module (path.sep = "/").               *)
(***************************************************************************)
EXTENDS Integers, Sequences, FiniteSets, TLC

VARIABLES
    pc,           \* position of the running command
    mode,         \* "apply" or "preview": the command that is running
    content,      \* the text of the active editor: a sequence of lines
    parseResult,  \* what MarkdownParser.parse returned
    tree,         \* the tree handed to validation and extraction
    disk,         \* the filesystem below the workspace root
    validation,   \* what StructureValidator.validate returned
    operations,   \* what OperationExtractor.extract returned
    validationErrors, \* what OperationExtractor.validate returned
    fileOps,      \* what OperationExecutor.prepareOperations returned
    executed,     \* the filesystem mutations attempted so far, in order
    lastAppliedTree,  \* TreeStateManager.lastAppliedTree
    targetPath,   \* the argument of PathUtils.isPathSafe
    pathSafe,     \* the result of PathUtils.isPathSafe
    second,       \* a second run of the apply command, started during the first
    drift         \* the result of DriftDetector.detectDrift

vars == <<pc, mode, content, parseResult, tree, disk, validation, operations,
          validationErrors, fileOps, executed, lastAppliedTree, targetPath,
          pathSafe, second, drift>>

(***************************************************************************)
(* Bounds                                                                  *)
(***************************************************************************)
MaxPathLen == 4       \* longest path string given to isPathSafe
MaxLines == 2         \* most lines of a document run through the commands
MaxDiskEntries == 2   \* most entries of the filesystem at the start
MaxContext == 1       \* most lines before and after the line under test
MaxOps == 3           \* most operations handed to prepareOperations

(***************************************************************************)
(* Strings                                                                 *)
(***************************************************************************)
\* UTF-16 code unit of a character (String.prototype comparison order)
CharCode(c) ==
    CASE c = "TAB" -> 9
      [] c = " " -> 32
      [] c = "#" -> 35
      [] c = "*" -> 42
      [] c = "+" -> 43
      [] c = "-" -> 45
      [] c = "." -> 46
      [] c = "/" -> 47
      [] c = "[" -> 91
      [] c = "\\" -> 92
      [] c = "]" -> 93
      [] c = "_" -> 95
      [] c = "a" -> 97
      [] c = "b" -> 98
      [] c = "c" -> 99
      [] c = "o" -> 111
      [] c = "r" -> 114
      [] c = "t" -> 116
      [] c = "w" -> 119
      [] c = "x" -> 120
      [] c = "~" -> 126
      [] c = "DASH" -> 9472
      [] c = "PIPE" -> 9474
      [] c = "CORNER" -> 9492
      [] c = "BRANCH" -> 9500

\* a < b in the order of String.prototype comparison
RECURSIVE StrLess(_, _)
StrLess(a, b) ==
    IF b = <<>> THEN FALSE
    ELSE IF a = <<>> THEN TRUE
    ELSE IF Head(a) = Head(b) THEN StrLess(Tail(a), Tail(b))
    ELSE CharCode(Head(a)) < CharCode(Head(b))

\* insert x into the sorted list s, after the elements equal to it
RECURSIVE InsertSorted(_, _)
InsertSorted(s, x) ==
    IF s = <<>> THEN <<x>>
    ELSE IF StrLess(x, Head(s)) THEN <<x>> \o s
    ELSE <<Head(s)>> \o InsertSorted(Tail(s), x)

\* Array.prototype.sort() without a comparator, on strings
RECURSIVE SortStrings(_)
SortStrings(s) ==
    IF s = <<>> THEN <<>>
    ELSE InsertSorted(SortStrings(SubSeq(s, 1, Len(s) - 1)), s[Len(s)])

\* arr.includes(x)
InList(arr, x) == \E i \in 1..Len(arr) : arr[i] = x

\* s.startsWith(p)
StartsWith(s, p) ==
    /\ Len(p) <= Len(s)
    /\ SubSeq(s, 1, Len(p)) = p

\* s.endsWith(p)
EndsWith(s, p) ==
    /\ Len(p) <= Len(s)
    /\ SubSeq(s, Len(s) - Len(p) + 1, Len(s)) = p

\* s.includes(c) for a single character c
Includes(s, c) == \E i \in 1..Len(s) : s[i] = c

\* s.split(sep) for a single-character separator
RECURSIVE SplitFrom(_, _, _)
SplitFrom(s, sep, cur) ==
    IF s = <<>> THEN <<cur>>
    ELSE IF Head(s) = sep THEN <<cur>> \o SplitFrom(Tail(s), sep, <<>>)
    ELSE SplitFrom(Tail(s), sep, Append(cur, Head(s)))

Split(s, sep) == SplitFrom(s, sep, <<>>)

\* segs.join(sep)
RECURSIVE Join(_, _)
Join(segs, sep) ==
    IF segs = <<>> THEN <<>>
    ELSE IF Len(segs) = 1 THEN segs[1]
    ELSE segs[1] \o <<sep>> \o Join(Tail(segs), sep)

\* all strings over alphabet A of length at most n
RECURSIVE StringsUpTo(_, _)
StringsUpTo(A, n) ==
    IF n = 0 THEN {<<>>}
    ELSE LET shorter == StringsUpTo(A, n - 1)
         IN  shorter \cup
             {Append(s, c) : s \in {t \in shorter : Len(t) = n - 1}, c \in A}

(***************************************************************************)
(* node's path module (POSIX)                                              *)
(***************************************************************************)
\* path.isAbsolute
IsAbsolute(p) == Len(p) > 0 /\ p[1] = "/"

\* normalizeString: drop "" and ".", let ".." remove the segment before it;
\* above the root of an absolute path ".." is dropped
RECURSIVE NormalizeSegs(_, _)
NormalizeSegs(segs, acc) ==
    IF segs = <<>> THEN acc
    ELSE LET s == Head(segs)
         IN  IF s = <<>> \/ s = <<".">> THEN NormalizeSegs(Tail(segs), acc)
             ELSE IF s = <<".", ".">>
                  THEN NormalizeSegs(Tail(segs),
                          IF acc = <<>> THEN acc
                          ELSE SubSeq(acc, 1, Len(acc) - 1))
             ELSE NormalizeSegs(Tail(segs), Append(acc, s))

\* path.resolve(from, to) as the list of segments of the absolute result
ResolveSegs(from, to) ==
    IF IsAbsolute(to) THEN NormalizeSegs(Split(to, "/"), <<>>)
    ELSE NormalizeSegs(Split(from, "/") \o Split(to, "/"), <<>>)

\* the absolute path string of a list of segments
AbsString(segs) == IF segs = <<>> THEN <<"/">> ELSE <<"/">> \o Join(segs, "/")

\* length of the longest common prefix of two segment lists
RECURSIVE CommonLen(_, _)
CommonLen(a, b) ==
    IF a = <<>> \/ b = <<>> THEN 0
    ELSE IF Head(a) = Head(b) THEN 1 + CommonLen(Tail(a), Tail(b))
    ELSE 0

\* path.relative(from, to) for absolute, resolved arguments
Relative(from, to) ==
    LET f == ResolveSegs(<<"/">>, from)
        t == ResolveSegs(<<"/">>, to)
        k == CommonLen(f, t)
        ups == [i \in 1..(Len(f) - k) |-> <<".", ".">>]
    IN  Join(ups \o SubSeq(t, k + 1, Len(t)), "/")

\* the workspace root (vscode.workspace.workspaceFolders[0].uri.fsPath)
workspaceRoot == <<"/", "w">>

(***************************************************************************)
(* PathUtils.isPathSafe                                                    *)
(***************************************************************************)
isPathSafe(p, root) ==
    IF IsAbsolute(p) THEN FALSE
    ELSE LET resolved == AbsString(ResolveSegs(root, p))
             normalized == AbsString(ResolveSegs(<<"/">>, resolved))
             relative == Relative(root, resolved)
         IN  IF StartsWith(relative, <<".", ".">>) \/ IsAbsolute(relative)
             THEN FALSE
             ELSE StartsWith(normalized, root)

(***************************************************************************)
(* PathUtils.isValidNodeName                                               *)
(***************************************************************************)
\* \s of the regular expressions and of String.prototype.trim
WhiteSpace == {" ", "TAB"}

\* \w of the regular expressions
WordChars == {"a", "b", "c", "t", "w", "x", "_"}

\* the class [<>:"|?*\x00-\x1F]
InvalidChars == {"<", ">", ":", "QUOTE", "|", "?", "*", "TAB"}

RECURSIVE TrimStart(_)
TrimStart(s) ==
    IF s # <<>> /\ Head(s) \in WhiteSpace THEN TrimStart(Tail(s)) ELSE s

RECURSIVE TrimEnd(_)
TrimEnd(s) ==
    IF s # <<>> /\ s[Len(s)] \in WhiteSpace
    THEN TrimEnd(SubSeq(s, 1, Len(s) - 1)) ELSE s

\* s.trim()
Trim(s) == TrimEnd(TrimStart(s))

\* isValidNodeName without the test for slashes
isValidNodeNameNoSlashTest(name) ==
    IF name = <<>> \/ Trim(name) = <<>> THEN FALSE
    ELSE IF name = <<".", ".">> \/ name = <<".">> THEN FALSE
    ELSE IF \E i \in 1..Len(name) : name[i] \in InvalidChars THEN FALSE
    ELSE TRUE

isValidNodeName(name) ==
    IF name = <<>> \/ Trim(name) = <<>> THEN FALSE
    ELSE IF Includes(name, "/") \/ Includes(name, "\\") THEN FALSE
    ELSE IF name = <<".", ".">> \/ name = <<".">> THEN FALSE
    ELSE IF \E i \in 1..Len(name) : name[i] \in InvalidChars THEN FALSE
    ELSE TRUE

(***************************************************************************)
(* MarkdownParser.parseLine                                                *)
(***************************************************************************)
TreeSymbols == {"BRANCH", "CORNER", "PIPE"}

\* line.replace(/[├└│]─?\s*/g, "")
RECURSIVE RemoveTreeSymbols(_)
RemoveTreeSymbols(s) ==
    IF s = <<>> THEN <<>>
    ELSE IF Head(s) \in TreeSymbols
         THEN LET r1 == Tail(s)
                  r2 == IF r1 # <<>> /\ Head(r1) = "DASH" THEN Tail(r1) ELSE r1
              IN  RemoveTreeSymbols(TrimStart(r2))
         ELSE <<Head(s)>> \o RemoveTreeSymbols(Tail(s))

\* line.split(/[├└]/)[0]
RECURSIVE BeforeBranch(_)
BeforeBranch(s) ==
    IF s = <<>> \/ Head(s) \in {"BRANCH", "CORNER"} THEN <<>>
    ELSE <<Head(s)>> \o BeforeBranch(Tail(s))

\* (s.match(/│/g) || []).length
CountPipes(s) == Cardinality({i \in 1..Len(s) : s[i] = "PIPE"})

\* index of the last character of the whitespace run that starts at i
\* (i - 1 when s[i] is not whitespace)
RECURSIVE RunEnd(_, _)
RunEnd(s, i) ==
    IF i <= Len(s) /\ s[i] \in WhiteSpace THEN RunEnd(s, i + 1) ELSE i - 1

\* cleanLine.match(/\[~\s+.+\]$/)
HasRenameMarker(s) ==
    /\ Len(s) >= 5
    /\ s[Len(s)] = "]"
    /\ \E i \in 1..(Len(s) - 4) :
          s[i] = "[" /\ s[i + 1] = "~" /\ s[i + 2] \in WhiteSpace

\* cleanLine.match(/^(.+?)\s+\[~\s+(.+?)\]$/): the ends p of the lazy first
\* group for which the rest of the pattern matches
RenameSplits(s) ==
    {p \in 1..Len(s) :
        LET q == RunEnd(s, p + 1)
        IN  /\ q >= p + 1
            /\ q + 4 <= Len(s) - 1
            /\ s[q + 1] = "[" /\ s[q + 2] = "~" /\ s[q + 3] \in WhiteSpace
            /\ s[Len(s)] = "]"}

Min(S) == CHOOSE x \in S : \A y \in S : x <= y

\* the two groups of that match; the second \s+ is greedy but leaves at
\* least one character for the second group
RenameMatch(s) ==
    LET p == Min(RenameSplits(s))
        q == RunEnd(s, p + 1)
        R == RunEnd(s, q + 3)
        r == IF R <= Len(s) - 2 THEN R ELSE Len(s) - 2
    IN  [name |-> SubSeq(s, 1, p), renameTo |-> SubSeq(s, r + 1, Len(s) - 1)]

\* end of the match of /\[\+\]|\[-\]|\[~\s+.+?\]/ at position i, 0 if none
MarkerEndAt(s, i) ==
    IF i + 2 <= Len(s) /\ s[i] = "[" /\ s[i + 1] \in {"+", "-"}
       /\ s[i + 2] = "]"
    THEN i + 2
    ELSE IF i + 4 <= Len(s) /\ s[i] = "[" /\ s[i + 1] = "~"
            /\ s[i + 2] \in WhiteSpace
    THEN LET R == RunEnd(s, i + 2)
             far == {e \in (R + 2)..Len(s) : s[e] = "]"}
         IN  IF far # {} THEN Min(far)
             ELSE IF R >= i + 3 /\ R + 1 <= Len(s) /\ s[R + 1] = "]"
                  THEN R + 1
             ELSE 0
    ELSE 0

\* (cleanLine.match(/\[\+\]|\[-\]|\[~\s+.+?\]/g) || []).length
RECURSIVE CountMarkers(_, _)
CountMarkers(s, i) ==
    IF i > Len(s) THEN 0
    ELSE LET e == MarkerEndAt(s, i)
         IN  IF e = 0 THEN CountMarkers(s, i + 1)
             ELSE 1 + CountMarkers(s, e + 1)

NoLine == [indent |-> -1]

parseLine(line, lineNumber) ==
    LET cleanLine == Trim(RemoveTreeSymbols(line))
        pipeCount == CountPipes(BeforeBranch(line))
        indentLevel == pipeCount * 2
        isCreate == EndsWith(cleanLine, <<"[", "+", "]">>)
        isDelete == ~isCreate /\ EndsWith(cleanLine, <<"[", "-", "]">>)
        isRename == ~isCreate /\ ~isDelete /\ HasRenameMarker(cleanLine)
        operation == IF isCreate THEN "create"
                     ELSE IF isDelete THEN "delete"
                     ELSE IF isRename THEN "rename" ELSE "none"
        renameOk == isRename /\ RenameSplits(cleanLine) # {}
        name == IF isCreate \/ isDelete
                THEN Trim(SubSeq(cleanLine, 1, Len(cleanLine) - 3))
                ELSE IF renameOk THEN Trim(RenameMatch(cleanLine).name)
                ELSE cleanLine
        renameTo == IF renameOk THEN Trim(RenameMatch(cleanLine).renameTo)
                    ELSE <<>>
        markerCount == CountMarkers(cleanLine, 1)
        isFolder == EndsWith(name, <<"/">>)
        cleanName == IF isFolder THEN SubSeq(name, 1, Len(name) - 1) ELSE name
        err(m) == [line |-> NoLine,
                   error |-> [line |-> lineNumber, message |-> m]]
    IN  IF isRename /\ ~renameOk THEN err("Invalid rename marker format")
        ELSE IF markerCount > 1
             THEN err("Cannot combine multiple operation markers on one line")
        ELSE IF cleanName = <<>> THEN err("Empty node name")
        ELSE IF ~isValidNodeName(cleanName) THEN err("Invalid node name")
        ELSE IF renameTo # <<>> /\ ~isValidNodeName(renameTo)
             THEN err("Invalid rename target")
        ELSE [line |-> [indent |-> indentLevel, name |-> cleanName,
                        isFolder |-> isFolder, lineNumber |-> lineNumber,
                        operation |-> operation, renameTo |-> renameTo],
              error |-> [line |-> 0, message |-> "none"]]

(***************************************************************************)
(* MarkdownParser.buildTree                                                *)
(***************************************************************************)
\* a TreeNode: children is <<>> for a file, operation "none" when undefined
RootName == <<"r", "o", "o", "t">>

NoTree == [name |-> <<>>, type |-> "null", children |-> <<>>,
           operation |-> "none", renameTo |-> <<>>]

\* the node reached from t by the child indexes ip
RECURSIVE NodeAt(_, _)
NodeAt(t, ip) ==
    IF ip = <<>> THEN t ELSE NodeAt(t.children[Head(ip)], Tail(ip))

\* parent.children.push(node) for the parent reached by ip
RECURSIVE PushChild(_, _, _)
PushChild(t, ip, node) ==
    IF ip = <<>> THEN [t EXCEPT !.children = Append(@, node)]
    ELSE [t EXCEPT !.children[Head(ip)] = PushChild(@, Tail(ip), node)]

\* while (stack.length > 0 && top.indent >= line.indent) stack.pop()
RECURSIVE PopStack(_, _)
PopStack(stack, indent) ==
    IF stack # <<>> /\ stack[Len(stack)].indent >= indent
    THEN PopStack(SubSeq(stack, 1, Len(stack) - 1), indent)
    ELSE stack

\* the loop of buildTree; st = [root, stack, error]
RECURSIVE BuildLoop(_, _)
BuildLoop(lines, st) ==
    IF lines = <<>> \/ st.error # "none" THEN st
    ELSE LET line == Head(lines)
             node == [name |-> line.name,
                      type |-> IF line.isFolder THEN "folder" ELSE "file",
                      children |-> <<>>,
                      operation |-> line.operation,
                      renameTo |-> line.renameTo]
             stack == PopStack(st.stack, line.indent)
         IN  IF stack = <<>>
             THEN [st EXCEPT !.error = "Invalid indentation"]
             ELSE LET ip == stack[Len(stack)].node
                      parent == NodeAt(st.root, ip)
                  IN  IF parent.type # "folder"
                      THEN [st EXCEPT !.error = "Cannot add child to file"]
                      ELSE LET root2 == PushChild(st.root, ip, node)
                               me == Append(ip, Len(parent.children) + 1)
                               stack2 ==
                                 IF node.type = "folder"
                                 THEN Append(stack, [node |-> me,
                                                     indent |-> line.indent])
                                 ELSE stack
                           IN  BuildLoop(Tail(lines),
                                  [root |-> root2, stack |-> stack2,
                                   error |-> "none"])

buildTree(lines) ==
    BuildLoop(lines,
       [root |-> [name |-> RootName, type |-> "folder", children |-> <<>>,
                  operation |-> "none", renameTo |-> <<>>],
        stack |-> <<[node |-> <<>>, indent |-> -2]>>,
        error |-> "none"])

(***************************************************************************)
(* MarkdownParser.parse                                                    *)
(***************************************************************************)
\* line.includes("├─") || line.includes("└─") || line.includes("│")
hasTreeSymbol(line) ==
    \/ \E i \in 1..(Len(line) - 1) :
          line[i] \in {"BRANCH", "CORNER"} /\ line[i + 1] = "DASH"
    \/ Includes(line, "PIPE")

\* trimmed.endsWith("/") || trimmed.match(/\.\w+\s*(\[|$)/)
looksLikePath(trimmed) ==
    \/ EndsWith(trimmed, <<"/">>)
    \/ \E i \in 1..Len(trimmed) : \E j \in (i + 1)..Len(trimmed) :
          /\ trimmed[i] = "."
          /\ \A k \in (i + 1)..j : trimmed[k] \in WordChars
          /\ LET e == RunEnd(trimmed, j + 1)
             IN  e = Len(trimmed) \/ trimmed[e + 1] = "["

\* the lines the loop of parse skips without parsing them
IsSkipped(line) ==
    LET trimmed == Trim(line)
    IN  \/ trimmed = <<>>
        \/ StartsWith(trimmed, <<"#">>)
        \/ StartsWith(trimmed, <<"<", "!", "-", "-">>)
        \/ ~hasTreeSymbol(line) /\ ~looksLikePath(trimmed)

\* the loop of parse leaving at the first line in error
RECURSIVE ParseLoopFirstError(_, _, _)
ParseLoopFirstError(lines, i, acc) ==
    IF i > Len(lines) THEN acc
    ELSE IF IsSkipped(lines[i]) THEN ParseLoopFirstError(lines, i + 1, acc)
    ELSE LET parsed == parseLine(lines[i], i)
         IN  IF parsed.error.message # "none"
             THEN [acc EXCEPT !.errors = Append(@, parsed.error)]
             ELSE ParseLoopFirstError(lines, i + 1,
                     [acc EXCEPT !.parsedLines = Append(@, parsed.line)])

\* the loop of parse over lines i..Len(lines); acc = [errors, parsedLines]
RECURSIVE ParseLoop(_, _, _)
ParseLoop(lines, i, acc) ==
    IF i > Len(lines) THEN acc
    ELSE IF IsSkipped(lines[i]) THEN ParseLoop(lines, i + 1, acc)
    ELSE LET parsed == parseLine(lines[i], i)
         IN  IF parsed.error.message # "none"
             THEN ParseLoop(lines, i + 1,
                     [acc EXCEPT !.errors = Append(@, parsed.error)])
             ELSE ParseLoop(lines, i + 1,
                     [acc EXCEPT !.parsedLines = Append(@, parsed.line)])

parse(lines) ==
    LET acc == ParseLoop(lines, 1, [errors |-> <<>>, parsedLines |-> <<>>])
    IN  IF Len(acc.errors) > 0 THEN [tree |-> NoTree, errors |-> acc.errors]
        ELSE IF Len(acc.parsedLines) = 0
             THEN [tree |-> NoTree,
                   errors |-> <<[line |-> 0,
                                 message |-> "No valid tree structure found"]>>]
        ELSE LET built == buildTree(acc.parsedLines)
             IN  IF built.error = "none"
                 THEN [tree |-> built.root, errors |-> <<>>]
                 ELSE [tree |-> NoTree,
                       errors |-> <<[line |-> 0, message |-> built.error]>>]

(***************************************************************************)
(* The filesystem below the workspace root: a set of entries               *)
(* [path |-> list of names, kind |-> "file" | "folder"]                    *)
(***************************************************************************)
\* path.join(workspaceRoot, ...segments)
buildPath(root, segments) ==
    AbsString(NormalizeSegs(Split(root, "/") \o segments, <<>>))

\* path.relative(workspaceRoot, fullPath)
getRelativePath(fullPath, root) == Relative(root, fullPath)

\* p.replace(/\\/g, "/")
normalizeSeparators(p) == [i \in 1..Len(p) |-> IF p[i] = "\\" THEN "/" ELSE p[i]]

\* the configuration value filetreeforge.ignorePatterns
ignorePatterns == <<>>

\* new RegExp("^" + pattern.replace(/\*/g, ".*") + "$").test(segment):
\* "*" stands for any run of characters, "." for any one character
RECURSIVE GlobTest(_, _)
GlobTest(pattern, segment) ==
    IF pattern = <<>> THEN segment = <<>>
    ELSE IF Head(pattern) = "*"
         THEN \E k \in 0..Len(segment) :
                 GlobTest(Tail(pattern), SubSeq(segment, k + 1, Len(segment)))
    ELSE /\ segment # <<>>
         /\ Head(pattern) = "." \/ Head(pattern) = Head(segment)
         /\ GlobTest(Tail(pattern), Tail(segment))

\* PathUtils.shouldIgnore
shouldIgnore(relativePath, patterns) ==
    LET segments == Split(normalizeSeparators(relativePath), "/")
    IN  \E k \in 1..Len(patterns) :
           \/ \E i \in 1..Len(segments) : segments[i] = patterns[k]
           \/ /\ Includes(patterns[k], "*")
              /\ \E i \in 1..Len(segments) : GlobTest(patterns[k], segments[i])

\* vscode.workspace.fs.readDirectory: the entries directly below dir
readDirectory(fs, dir) ==
    {e \in fs : Len(e.path) = Len(dir) + 1 /\ SubSeq(e.path, 1, Len(dir)) = dir}

\* the elements of a set of entries, one after the other
RECURSIVE EntrySeq(_)
EntrySeq(S) ==
    IF S = {} THEN <<>>
    ELSE LET e == CHOOSE x \in S :
                    \A y \in S : x = y \/ StrLess(Join(x.path, "/"),
                                                  Join(y.path, "/"))
         IN  <<e>> \o EntrySeq(S \ {e})

(***************************************************************************)
(* StructureValidator                                                      *)
(***************************************************************************)
\* StructureValidator.getExpectedPaths
RECURSIVE getExpectedPaths(_, _)
RECURSIVE ExpectedOfChildren(_, _)
ExpectedOfChildren(children, prefix) ==
    IF children = <<>> THEN <<>>
    ELSE LET child == Head(children)
             childPath == IF prefix # <<>> THEN prefix \o <<"/">> \o child.name
                          ELSE child.name
             rest == ExpectedOfChildren(Tail(children), prefix)
         IN  IF child.operation = "create" THEN rest
             ELSE <<childPath>> \o getExpectedPaths(child, childPath) \o rest

getExpectedPaths(t, prefix) == SortStrings(ExpectedOfChildren(t.children, prefix))

\* StructureValidator.scanFilesystem; dir is the list of names of dirPath
\* below the workspace root
RECURSIVE scanFilesystem(_, _, _, _)
RECURSIVE ScanEntries(_, _, _, _)
ScanEntries(fs, entries, root, patterns) ==
    IF entries = <<>> THEN <<>>
    ELSE LET e == Head(entries)
             childPath == buildPath(root, e.path)
             relativePath == getRelativePath(childPath, root)
             rest == ScanEntries(fs, Tail(entries), root, patterns)
         IN  IF shouldIgnore(relativePath, patterns) THEN rest
             ELSE <<normalizeSeparators(relativePath)>>
                  \o (IF e.kind = "folder"
                      THEN scanFilesystem(fs, e.path, root, patterns)
                      ELSE <<>>)
                  \o rest

scanFilesystem(fs, dir, root, patterns) ==
    SortStrings(ScanEntries(fs, EntrySeq(readDirectory(fs, dir)), root, patterns))

\* the filter with the test turned round: arr.filter((p) => other.includes(p))
RECURSIVE FilterIn(_, _)
FilterIn(arr, other) ==
    IF arr = <<>> THEN <<>>
    ELSE IF InList(other, Head(arr))
         THEN <<Head(arr)>> \o FilterIn(Tail(arr), other)
    ELSE FilterIn(Tail(arr), other)

\* arr.filter((p) => !other.includes(p))
RECURSIVE FilterNotIn(_, _)
FilterNotIn(arr, other) ==
    IF arr = <<>> THEN <<>>
    ELSE IF InList(other, Head(arr)) THEN FilterNotIn(Tail(arr), other)
    ELSE <<Head(arr)>> \o FilterNotIn(Tail(arr), other)

\* StructureValidator.validate
validate(t, fs, root, patterns) ==
    LET expectedPaths == getExpectedPaths(t, <<>>)
        actualPaths == scanFilesystem(fs, <<>>, root, patterns)
        added == FilterNotIn(actualPaths, expectedPaths)
        removed == FilterNotIn(expectedPaths, actualPaths)
    IN  [valid |-> Len(added) = 0 /\ Len(removed) = 0,
         expected |-> expectedPaths, actual |-> actualPaths,
         added |-> added, removed |-> removed]

(***************************************************************************)
(* OperationExtractor                                                      *)
(***************************************************************************)
\* an OperationNode: hasNewPath is FALSE when newPath is undefined
\* the record with the target appended to the whole path
OperationNodeAppendTarget(node, path) ==
    [nodeType |-> node.type, renameTo |-> node.renameTo, path |-> path,
     operation |-> node.operation,
     hasNewPath |-> node.operation = "rename" /\ node.renameTo # <<>>,
     newPath |-> IF node.operation = "rename" /\ node.renameTo # <<>>
                 THEN path \o <<node.renameTo>>
                 ELSE <<>>]

OperationNode(node, path) ==
    [nodeType |-> node.type, renameTo |-> node.renameTo, path |-> path,
     operation |-> node.operation,
     hasNewPath |-> node.operation = "rename" /\ node.renameTo # <<>>,
     newPath |-> IF node.operation = "rename" /\ node.renameTo # <<>>
                 THEN SubSeq(path, 1, Len(path) - 1) \o <<node.renameTo>>
                 ELSE <<>>]

\* OperationExtractor.extractRecursive
RECURSIVE extractRecursive(_, _)
RECURSIVE ExtractChildren(_, _)
ExtractChildren(children, currentPath) ==
    IF children = <<>> THEN <<>>
    ELSE extractRecursive(Head(children), Append(currentPath, Head(children).name))
         \o ExtractChildren(Tail(children), currentPath)

extractRecursive(node, currentPath) ==
    (IF node.operation # "none" THEN <<OperationNode(node, currentPath)>>
     ELSE <<>>)
    \o ExtractChildren(node.children, currentPath)

\* OperationExtractor.extract
extract(t) == extractRecursive(t, <<>>)

\* validate without the test for the root
RECURSIVE validateOperationsNoRootTest(_)
validateOperationsNoRootTest(ops) ==
    IF ops = <<>> THEN <<>>
    ELSE LET op == Head(ops)
             rest == validateOperationsNoRootTest(Tail(ops))
         IN  IF op.operation = "rename" /\ op.renameTo = <<>>
             THEN <<[message |-> "Rename operation missing target name",
                     path |-> op.path]>> \o rest
             ELSE rest

\* OperationExtractor.validate: the list of error messages
RECURSIVE validateOperations(_)
validateOperations(ops) ==
    IF ops = <<>> THEN <<>>
    ELSE LET op == Head(ops)
             rest == validateOperations(Tail(ops))
         IN  IF Len(op.path) = 0
             THEN <<[message |-> "Cannot operate on root node",
                     path |-> op.path]>> \o rest
             ELSE IF op.operation = "rename" /\ op.renameTo = <<>>
                  THEN <<[message |-> "Rename operation missing target name",
                          path |-> op.path]>> \o rest
             ELSE rest

(***************************************************************************)
(* OperationExecutor                                                       *)
(***************************************************************************)
\* the loop of prepareOperations: [threw, fileOps]
RECURSIVE PrepareLoop(_, _, _)
PrepareLoop(ops, root, acc) ==
    IF ops = <<>> \/ acc.threw THEN acc
    ELSE LET op == Head(ops)
             fullPath == buildPath(root, op.path)
             rec(newFull) == [type |-> op.operation, path |-> fullPath,
                              newPath |-> newFull, nodeType |-> op.nodeType]
         IN  IF ~isPathSafe(Join(op.path, "/"), root)
             THEN [acc EXCEPT !.threw = TRUE]
             ELSE IF op.operation \in {"create", "delete"}
                  THEN PrepareLoop(Tail(ops), root,
                          [acc EXCEPT !.fileOps = Append(@, rec(<<>>))])
             ELSE IF op.operation = "rename" /\ op.hasNewPath
                  THEN IF ~isPathSafe(Join(op.newPath, "/"), root)
                       THEN [acc EXCEPT !.threw = TRUE]
                       ELSE PrepareLoop(Tail(ops), root,
                               [acc EXCEPT !.fileOps =
                                   Append(@, rec(buildPath(root, op.newPath)))])
             ELSE PrepareLoop(Tail(ops), root, acc)

\* a.path.split(path.sep).length
Depth(op) == Len(Split(op.path, "/"))

\* ops.filter((op) => op.type === type && op.nodeType === nodeType)
RECURSIVE FilterOps(_, _, _)
FilterOps(ops, types, nodeTypes) ==
    IF ops = <<>> THEN <<>>
    ELSE IF Head(ops).type \in types /\ Head(ops).nodeType \in nodeTypes
         THEN <<Head(ops)>> \o FilterOps(Tail(ops), types, nodeTypes)
    ELSE FilterOps(Tail(ops), types, nodeTypes)

\* Array.prototype.sort with the comparator key(a) - key(b): a stable sort
RECURSIVE InsertByKey(_, _, _)
InsertByKey(s, x, sign) ==
    IF s = <<>> THEN <<x>>
    ELSE IF sign * Depth(x) < sign * Depth(Head(s)) THEN <<x>> \o s
    ELSE <<Head(s)>> \o InsertByKey(Tail(s), x, sign)

RECURSIVE SortByDepth(_, _)
SortByDepth(s, sign) ==
    IF s = <<>> THEN <<>>
    ELSE InsertByKey(SortByDepth(SubSeq(s, 1, Len(s) - 1), sign), s[Len(s)], sign)

NodeTypes == {"file", "folder"}

\* sortOperations that leaves the folder deletions in the order given
sortOperationsNoDeleteSort(ops) ==
    SortByDepth(FilterOps(ops, {"create"}, {"folder"}), 1)
    \o FilterOps(ops, {"create"}, {"file"})
    \o FilterOps(ops, {"rename"}, NodeTypes)
    \o FilterOps(ops, {"delete"}, {"file"})
    \o FilterOps(ops, {"delete"}, {"folder"})

\* sortOperations that puts the renames first
sortOperationsRenamesFirst(ops) ==
    FilterOps(ops, {"rename"}, NodeTypes)
    \o SortByDepth(FilterOps(ops, {"create"}, {"folder"}), 1)
    \o FilterOps(ops, {"create"}, {"file"})
    \o FilterOps(ops, {"delete"}, {"file"})
    \o SortByDepth(FilterOps(ops, {"delete"}, {"folder"}), -1)

\* OperationExecutor.sortOperations
sortOperations(ops) ==
    LET createFolders == FilterOps(ops, {"create"}, {"folder"})
        createFiles == FilterOps(ops, {"create"}, {"file"})
        renames == FilterOps(ops, {"rename"}, NodeTypes)
        deleteFiles == FilterOps(ops, {"delete"}, {"file"})
        deleteFolders == FilterOps(ops, {"delete"}, {"folder"})
    IN  SortByDepth(createFolders, 1) \o createFiles \o renames
        \o deleteFiles \o SortByDepth(deleteFolders, -1)

\* OperationExecutor.prepareOperations: [threw, fileOps]
prepareOperations(ops, root) ==
    LET acc == PrepareLoop(ops, root, [threw |-> FALSE, fileOps |-> <<>>])
    IN  IF acc.threw THEN [threw |-> TRUE, fileOps |-> <<>>]
        ELSE [threw |-> FALSE, fileOps |-> sortOperations(acc.fileOps)]

(***************************************************************************)
(* The filesystem provider (vscode.workspace.fs) as OperationExecutor      *)
(* uses it.  An entry is [path, kind, data]; data tells a file that was    *)
(* there from the start ("orig") from an empty one written by the tool.    *)
(***************************************************************************)
Entry(path, kind, data) == [path |-> path, kind |-> kind, data |-> data]

\* the names below the workspace root of an absolute path
RelSegs(fullPath, root) ==
    LET rel == getRelativePath(fullPath, root)
    IN  IF rel = <<>> THEN <<>> ELSE Split(rel, "/")

Exists(fs, path) == path = <<>> \/ \E e \in fs : e.path = path

KindOf(fs, path) ==
    IF path = <<>> THEN "folder" ELSE (CHOOSE e \in fs : e.path = path).kind

IsUnder(q, path) == Len(q) > Len(path) /\ SubSeq(q, 1, Len(path)) = path

Prefixes(path) == {SubSeq(path, 1, k) : k \in 1..Len(path)}

\* fs.createDirectory: creates the missing parents, accepts an existing
\* folder, fails when a file is in the way
createDirectory(fs, path) ==
    IF \E q \in Prefixes(path) : Exists(fs, q) /\ KindOf(fs, q) # "folder"
    THEN [ok |-> FALSE, fs |-> fs]
    ELSE [ok |-> TRUE,
          fs |-> fs \cup {Entry(q, "folder", "none") :
                            q \in {r \in Prefixes(path) : ~Exists(fs, r)}}]

\* fs.writeFile(uri, new Uint8Array()): creates or replaces the file
writeFile(fs, path) ==
    LET parent == SubSeq(path, 1, Len(path) - 1)
        dirs == createDirectory(fs, parent)
    IN  IF ~dirs.ok \/ (Exists(fs, path) /\ KindOf(fs, path) = "folder")
        THEN [ok |-> FALSE, fs |-> fs]
        ELSE [ok |-> TRUE,
              fs |-> {e \in dirs.fs : e.path # path}
                     \cup {Entry(path, "file", "empty")}]

\* fs.rename(uri, newUri, { overwrite: false })
rename(fs, path, newPath) ==
    IF ~Exists(fs, path) \/ Exists(fs, newPath) \/ path = <<>>
       \/ IsUnder(newPath, path)
    THEN [ok |-> FALSE, fs |-> fs]
    ELSE [ok |-> TRUE,
          fs |-> {e \in fs : e.path # path /\ ~IsUnder(e.path, path)}
                 \cup {[e EXCEPT !.path = newPath
                                   \o SubSeq(e.path, Len(path) + 1, Len(e.path))] :
                         e \in {x \in fs : x.path = path \/ IsUnder(x.path, path)}}]

\* fs.delete(uri, { recursive: true })
delete(fs, path) ==
    IF ~Exists(fs, path) \/ path = <<>>
    THEN [ok |-> FALSE, fs |-> fs]
    ELSE [ok |-> TRUE,
          fs |-> {e \in fs : e.path # path /\ ~IsUnder(e.path, path)}]

\* OperationExecutor.executeOperation
executeOperation(fs, op, root) ==
    LET path == RelSegs(op.path, root)
    IN  IF op.type = "create"
        THEN IF op.nodeType = "folder" THEN createDirectory(fs, path)
             ELSE writeFile(fs, path)
        ELSE IF op.type = "rename"
        THEN LET newPath == RelSegs(op.newPath, root)
                 parentDir == SubSeq(newPath, 1, Len(newPath) - 1)
                 dirs == createDirectory(fs, parentDir)
             IN  IF ~dirs.ok THEN dirs ELSE rename(dirs.fs, path, newPath)
        ELSE delete(fs, path)

(***************************************************************************)
(* scanDirectory: the unmarked tree of the filesystem                      *)
(***************************************************************************)
RECURSIVE scanDirectory(_, _, _, _)
RECURSIVE ScanChildren(_, _, _, _)
ScanChildren(fs, entries, root, patterns) ==
    IF entries = <<>> THEN <<>>
    ELSE LET e == Head(entries)
             childRelative == getRelativePath(buildPath(root, e.path), root)
             rest == ScanChildren(fs, Tail(entries), root, patterns)
         IN  IF shouldIgnore(childRelative, patterns) THEN rest
             ELSE IF e.kind = "folder"
                  THEN <<scanDirectory(fs, e.path, root, patterns)>> \o rest
             ELSE IF e.kind = "file"
                  THEN <<[name |-> e.path[Len(e.path)], type |-> "file",
                          children |-> <<>>, operation |-> "none",
                          renameTo |-> <<>>]>> \o rest
             ELSE rest

scanDirectory(fs, dir, root, patterns) ==
    LET entries == readDirectory(fs, dir)
        sorted == EntrySeq({e \in entries : e.kind = "folder"})
                  \o EntrySeq({e \in entries : e.kind # "folder"})
    IN  [name |-> IF dir = <<>> THEN RootName ELSE dir[Len(dir)],
         type |-> "folder",
         children |-> ScanChildren(fs, sorted, root, patterns),
         operation |-> "none", renameTo |-> <<>>]

(***************************************************************************)
(* Inputs of the commands                                                  *)
(***************************************************************************)
\* "├─ " and "│ ├─ ": the prefixes of depth 0 and depth 1
Prefix0 == <<"BRANCH", "DASH", " ">>
Prefix1 == <<"PIPE", " ", "BRANCH", "DASH", " ">>

MarkCreate == <<" ", "[", "+", "]">>
MarkDelete == <<" ", "[", "-", "]">>
MarkRename == <<" ", "[", "~", " ", "b", "]">>

\* the lines of the documents the commands are run on
TreeLines ==
    {p \o n \o m : p \in {Prefix0, Prefix1},
                   n \in {<<"a">>, <<"a", "/">>},
                   m \in {<<>>, MarkCreate, MarkDelete, MarkRename}}

\* all sequences over S of length at most n
RECURSIVE SeqsUpTo(_, _)
SeqsUpTo(S, n) ==
    IF n = 0 THEN {<<>>}
    ELSE LET shorter == SeqsUpTo(S, n - 1)
         IN  shorter \cup
             {Append(q, x) : q \in {t \in shorter : Len(t) = n - 1}, x \in S}

Documents == SeqsUpTo(TreeLines, MaxLines)

\* the entries a filesystem may hold at the start
DiskEntries ==
    {Entry(path, kind, IF kind = "file" THEN "orig" ELSE "none") :
        path \in {<<<<"a">>>>, <<<<"b">>>>, <<<<"a">>, <<"a">>>>,
                  <<<<"a">>, <<"b">>>>},
        kind \in NodeTypes}

\* a filesystem: no path twice, every entry inside a folder that exists
IsFilesystem(fs) ==
    /\ \A e1, e2 \in fs : e1.path = e2.path => e1 = e2
    /\ \A e \in fs : Len(e.path) > 1 =>
          Entry(SubSeq(e.path, 1, Len(e.path) - 1), "folder", "none") \in fs

Disks == {fs \in SUBSET DiskEntries :
            Cardinality(fs) <= MaxDiskEntries /\ IsFilesystem(fs)}

NoValidation == [status |-> "none", valid |-> FALSE, expected |-> <<>>,
                 actual |-> <<>>, added |-> <<>>, removed |-> <<>>]

\* no drift detection has run
NoDrift == [hasDrift |-> FALSE, addedFiles |-> <<>>, deletedFiles |-> <<>>,
            modifiedFiles |-> <<>>]

\* no second run of the command has been started
NoSecond == [pc |-> "idle", fileOps |-> <<>>, executed |-> <<>>]

(***************************************************************************)
(* ApplyChangesCommand.execute and PreviewChangesCommand.execute           *)
(***************************************************************************)
Init ==
    /\ pc = "idle"
    /\ mode = "none"
    /\ content \in Documents
    /\ disk \in Disks
    /\ parseResult = [tree |-> NoTree, errors |-> <<>>]
    /\ tree = NoTree
    /\ validation = NoValidation
    /\ operations = <<>>
    /\ validationErrors = <<>>
    /\ fileOps = <<>>
    /\ executed = <<>>
    /\ lastAppliedTree = NoTree
    /\ targetPath = <<>>
    /\ pathSafe = FALSE
    /\ second = NoSecond
    /\ drift = NoDrift

\* the user runs one of the two commands on the active editor
Start ==
    /\ pc = "idle"
    /\ \E m \in {"apply", "preview"} : mode' = m
    /\ pc' = "parse"
    /\ UNCHANGED <<content, parseResult, tree, disk, validation, operations,
                   validationErrors, fileOps, executed, lastAppliedTree,
                   targetPath, pathSafe, second, drift>>

\* MarkdownParser.parse(content); without a tree the command reports the
\* errors and returns
Parse ==
    /\ pc = "parse"
    /\ parseResult' = parse(content)
    /\ IF parseResult'.tree.type = "null"
       THEN pc' = "parseErrors" /\ tree' = tree
       ELSE pc' = "validate" /\ tree' = parseResult'.tree
    /\ UNCHANGED <<mode, content, disk, validation, operations,
                   validationErrors, fileOps, executed, lastAppliedTree,
                   targetPath, pathSafe, second, drift>>

\* the gate left open: the mismatch branch is never taken
IsMismatchNever(v) == FALSE

\* if (!validation.valid && validation.mismatch)
IsMismatch(v) == ~v.valid /\ v.status = "mismatch"

\* await StructureValidator.validate(tree, workspaceRoot, ignorePatterns)
Validate ==
    /\ pc = "validate"
    /\ LET v == validate(tree, disk, workspaceRoot, ignorePatterns)
       IN  validation' = [status |-> IF v.valid THEN "valid" ELSE "mismatch",
                          valid |-> v.valid, expected |-> v.expected,
                          actual |-> v.actual, added |-> v.added,
                          removed |-> v.removed]
    /\ pc' = IF IsMismatch(validation') THEN "mismatch" ELSE "extract"
    /\ UNCHANGED <<mode, content, parseResult, tree, disk, operations,
                   validationErrors, fileOps, executed, lastAppliedTree,
                   targetPath, pathSafe, second, drift>>

\* the modal mismatch dialog: "Regenerate Tree" runs the generate command,
\* any other answer (and the preview's dialog) just returns
MismatchDialog ==
    /\ pc = "mismatch"
    /\ \E choice \in {"Regenerate Tree", "Cancel"} :
          IF mode = "apply" /\ choice = "Regenerate Tree"
          THEN /\ pc' = "regenerated"
               /\ lastAppliedTree' =
                     scanDirectory(disk, <<>>, workspaceRoot, ignorePatterns)
          ELSE /\ pc' = "mismatchReturned"
               /\ lastAppliedTree' = lastAppliedTree
    /\ UNCHANGED <<mode, content, parseResult, tree, disk, validation,
                   operations, validationErrors, fileOps, executed,
                   targetPath, pathSafe, second, drift>>

\* the preview handing its operations to execute without the dry run
ExtractAndPrepareNoDryRun ==
    /\ pc = "extract"
    /\ operations' = extract(tree)
    /\ validationErrors' = validateOperations(operations')
    /\ IF Len(validationErrors') > 0
       THEN pc' = "operationErrors" /\ fileOps' = fileOps
       ELSE IF Len(operations') = 0
       THEN pc' = "noOperations" /\ fileOps' = fileOps
       ELSE LET prepared == prepareOperations(operations', workspaceRoot)
            IN  IF prepared.threw
                THEN pc' = "failed" /\ fileOps' = fileOps
                ELSE /\ fileOps' = prepared.fileOps
                     /\ IF mode = "preview" THEN pc' = "execute"
                        ELSE \E confirmBeforeApply \in BOOLEAN :
                                pc' = IF confirmBeforeApply THEN "confirm"
                                      ELSE "execute"
    /\ UNCHANGED <<mode, content, parseResult, tree, disk, validation,
                   executed, lastAppliedTree, targetPath, pathSafe, second, drift>>

\* extract, validate and prepare the operations; the preview then shows
\* them, the apply asks for confirmation when confirmBeforeApply is set
ExtractAndPrepare ==
    /\ pc = "extract"
    /\ operations' = extract(tree)
    /\ validationErrors' = validateOperations(operations')
    /\ IF Len(validationErrors') > 0
       THEN pc' = "operationErrors" /\ fileOps' = fileOps
       ELSE IF Len(operations') = 0
       THEN pc' = "noOperations" /\ fileOps' = fileOps
       ELSE LET prepared == prepareOperations(operations', workspaceRoot)
            IN  IF prepared.threw
                THEN pc' = "failed" /\ fileOps' = fileOps
                ELSE /\ fileOps' = prepared.fileOps
                     /\ IF mode = "preview" THEN pc' = "previewShown"
                        ELSE \E confirmBeforeApply \in BOOLEAN :
                                pc' = IF confirmBeforeApply THEN "confirm"
                                      ELSE "execute"
    /\ UNCHANGED <<mode, content, parseResult, tree, disk, validation,
                   executed, lastAppliedTree, targetPath, pathSafe, second, drift>>

\* the modal confirmation: if (answer !== "Apply") return
Confirm ==
    /\ pc = "confirm"
    /\ \E answer \in {"Apply", "Cancel"} :
          pc' = IF answer # "Apply" THEN "cancelled" ELSE "execute"
    /\ UNCHANGED <<mode, content, parseResult, tree, disk, validation,
                   operations, validationErrors, fileOps, executed,
                   lastAppliedTree, targetPath, pathSafe, second, drift>>

\* the loop of execute going on to the next operation after a failure
ExecuteOperationSwallowsError ==
    /\ pc = "execute"
    /\ Len(executed) < Len(fileOps)
    /\ LET op == fileOps[Len(executed) + 1]
           res == executeOperation(disk, op, workspaceRoot)
       IN  /\ disk' = res.fs
           /\ executed' = Append(executed, [op |-> op, ok |-> res.ok])
           /\ pc' = "execute"
    /\ UNCHANGED <<mode, content, parseResult, tree, validation, operations,
                   validationErrors, fileOps, lastAppliedTree, targetPath,
                   pathSafe, second, drift>>

\* one turn of the loop of OperationExecutor.execute: the next operation
\* runs; when it throws, the command reports "Apply failed" and returns
ExecuteOperation ==
    /\ pc = "execute"
    /\ Len(executed) < Len(fileOps)
    /\ LET op == fileOps[Len(executed) + 1]
           res == executeOperation(disk, op, workspaceRoot)
       IN  /\ disk' = res.fs
           /\ executed' = Append(executed, [op |-> op, ok |-> res.ok])
           /\ pc' = IF res.ok THEN "execute" ELSE "failed"
    /\ UNCHANGED <<mode, content, parseResult, tree, validation, operations,
                   validationErrors, fileOps, lastAppliedTree, targetPath,
                   pathSafe, second, drift>>

\* the provider rejects the next operation (permission denied, I/O error)
ExecuteOperationFails ==
    /\ pc = "execute"
    /\ Len(executed) < Len(fileOps)
    /\ executed' = Append(executed,
                      [op |-> fileOps[Len(executed) + 1], ok |-> FALSE])
    /\ pc' = "failed"
    /\ UNCHANGED <<mode, content, parseResult, tree, disk, validation,
                   operations, validationErrors, fileOps, lastAppliedTree,
                   targetPath, pathSafe, second, drift>>

\* all operations ran: rescan, store the new baseline, report success
Finish ==
    /\ pc = "execute"
    /\ Len(executed) = Len(fileOps)
    /\ lastAppliedTree' =
          scanDirectory(disk, <<>>, workspaceRoot, ignorePatterns)
    /\ pc' = "applied"
    /\ UNCHANGED <<mode, content, parseResult, tree, disk, validation,
                   operations, validationErrors, fileOps, executed,
                   targetPath, pathSafe, second, drift>>

\* Apply run with the preview document in front (applyFromPreview): the
\* tree document is shown again and execute runs on it; the preview still
\* shows the operations it listed
ApplyFromPreview ==
    /\ pc = "previewShown"
    /\ mode' = "apply"
    /\ pc' = "parse"
    /\ UNCHANGED <<content, parseResult, tree, disk, validation, operations,
                   validationErrors, fileOps, executed, lastAppliedTree,
                   targetPath, pathSafe, second, drift>>

Next ==
    \/ Start
    \/ ApplyFromPreview
    \/ Parse
    \/ Validate
    \/ MismatchDialog
    \/ ExtractAndPrepare
    \/ Confirm
    \/ ExecuteOperation
    \/ ExecuteOperationFails
    \/ Finish

Spec == Init /\ [][Next]_vars

(***************************************************************************)
(* PathUtils.isPathSafe on its own                                         *)
(***************************************************************************)
PathChars == {".", "/", "a", "w"}

InitPath ==
    /\ pc = "path"
    /\ targetPath \in StringsUpTo(PathChars, MaxPathLen)
    /\ pathSafe = FALSE
    /\ second = NoSecond
    /\ drift = NoDrift
    /\ mode = "none"
    /\ content = <<>>
    /\ disk = {}
    /\ parseResult = [tree |-> NoTree, errors |-> <<>>]
    /\ tree = NoTree
    /\ validation = NoValidation
    /\ operations = <<>>
    /\ validationErrors = <<>>
    /\ fileOps = <<>>
    /\ executed = <<>>
    /\ lastAppliedTree = NoTree

CheckPath ==
    /\ pc = "path"
    /\ pathSafe' = isPathSafe(targetPath, workspaceRoot)
    /\ pc' = "pathChecked"
    /\ UNCHANGED <<mode, content, parseResult, tree, disk, validation,
                   operations, validationErrors, fileOps, executed,
                   lastAppliedTree, targetPath, second, drift>>

NextPath == CheckPath

SpecPath == InitPath /\ [][NextPath]_vars

(***************************************************************************)
(* MarkdownParser.parse on its own                                         *)
(***************************************************************************)
Mplus == <<"[", "+", "]">>
Mminus == <<"[", "-", "]">>
Mrename == <<"[", "~", " ", "b", "]">>
Markers == {Mplus, Mminus, Mrename}

\* what may follow the name on a line
Suffixes ==
    {<<>>}
    \cup {<<" ">> \o m : m \in Markers}
    \cup {<<" ">> \o m1 \o <<" ">> \o m2 : m1, m2 \in Markers}
    \cup {Mplus, <<" ", " ">> \o Mplus, Mrename,
          <<" ", "[", "~", " ", "]">>, <<" ", "[", "~", " ", " ", "]">>}

NameTexts == {<<"a">>, <<"a", "/">>, <<"a", ".", "t">>, <<".", ".">>,
              <<".", ".", "/", "a">>, <<"a", "*">>}

\* the line under test
RichLines ==
    {p \o n \o x : p \in {<<>>, Prefix0, Prefix1}, n \in NameTexts,
                   x \in Suffixes}

\* the lines around it: a folder, a nested file, a line with two markers
\* and a line of prose
ContextLines ==
    {Prefix0 \o <<"a", "/">>, Prefix1 \o <<"a">>,
     Prefix0 \o <<"a", " ">> \o Mplus \o <<" ">> \o Mminus, <<"x">>}

ParseDocuments ==
    {before \o <<l>> \o after :
        before \in SeqsUpTo(ContextLines, MaxContext),
        l \in RichLines,
        after \in SeqsUpTo(ContextLines, MaxContext)}

InitParse ==
    /\ pc = "parse"
    /\ mode = "apply"
    /\ content \in ParseDocuments
    /\ disk = {}
    /\ parseResult = [tree |-> NoTree, errors |-> <<>>]
    /\ tree = NoTree
    /\ validation = NoValidation
    /\ operations = <<>>
    /\ validationErrors = <<>>
    /\ fileOps = <<>>
    /\ executed = <<>>
    /\ lastAppliedTree = NoTree
    /\ targetPath = <<>>
    /\ pathSafe = FALSE
    /\ second = NoSecond
    /\ drift = NoDrift

NextParse == Parse

SpecParse == InitParse /\ [][NextParse]_vars

(***************************************************************************)
(* OperationExecutor.prepareOperations on its own                          *)
(***************************************************************************)
\* the operations handed to prepareOperations: every operation on a folder
\* or file a and on a/a, and one whose path leaves the workspace
OperationNodes ==
    {OperationNode([type |-> k, renameTo |-> IF o = "rename" THEN <<"b">> ELSE <<>>,
                    operation |-> o], path) :
        k \in NodeTypes, o \in {"create", "delete", "rename"},
        path \in {<<<<"a">>>>, <<<<"a">>, <<"a">>>>}}
    \cup {OperationNode([type |-> "file", renameTo |-> <<>>,
                         operation |-> "create"], <<<<".", ".">>, <<"a">>>>)}

InitSchedule ==
    /\ pc = "prepare"
    /\ mode = "apply"
    /\ operations \in SeqsUpTo(OperationNodes, MaxOps)
    /\ content = <<>>
    /\ disk = {}
    /\ parseResult = [tree |-> NoTree, errors |-> <<>>]
    /\ tree = NoTree
    /\ validation = NoValidation
    /\ validationErrors = <<>>
    /\ fileOps = <<>>
    /\ executed = <<>>
    /\ lastAppliedTree = NoTree
    /\ targetPath = <<>>
    /\ pathSafe = FALSE
    /\ second = NoSecond
    /\ drift = NoDrift

PrepareOperations ==
    /\ pc = "prepare"
    /\ LET prepared == prepareOperations(operations, workspaceRoot)
       IN  IF prepared.threw
           THEN pc' = "failed" /\ fileOps' = fileOps
           ELSE pc' = "prepared" /\ fileOps' = prepared.fileOps
    /\ UNCHANGED <<mode, content, parseResult, tree, disk, validation,
                   operations, validationErrors, executed, lastAppliedTree,
                   targetPath, pathSafe, second, drift>>

NextSchedule == PrepareOperations

SpecSchedule == InitSchedule /\ [][NextSchedule]_vars

(***************************************************************************)
(* Extraction and execution from any tree that passed structure            *)
(* validation, whatever its root carries                                   *)
(***************************************************************************)
RootMarks ==
    {[operation |-> "none", renameTo |-> <<>>],
     [operation |-> "create", renameTo |-> <<>>],
     [operation |-> "delete", renameTo |-> <<>>],
     [operation |-> "rename", renameTo |-> <<"b">>],
     [operation |-> "rename", renameTo |-> <<>>]}

InitExtract ==
    /\ pc = "extract"
    /\ content \in Documents
    /\ parseResult = parse(content)
    /\ parseResult.tree.type # "null"
    /\ \E m \in RootMarks :
          tree = [parseResult.tree EXCEPT !.operation = m.operation,
                                          !.renameTo = m.renameTo]
    /\ disk \in Disks
    /\ LET v == validate(tree, disk, workspaceRoot, ignorePatterns)
       IN  /\ v.valid
           /\ validation = [status |-> "valid", valid |-> TRUE,
                            expected |-> v.expected, actual |-> v.actual,
                            added |-> v.added, removed |-> v.removed]
    /\ mode \in {"apply", "preview"}
    /\ operations = <<>>
    /\ validationErrors = <<>>
    /\ fileOps = <<>>
    /\ executed = <<>>
    /\ lastAppliedTree = NoTree
    /\ targetPath = <<>>
    /\ pathSafe = FALSE
    /\ second = NoSecond
    /\ drift = NoDrift

NextExtract ==
    \/ ExtractAndPrepare
    \/ Confirm
    \/ ExecuteOperation
    \/ ExecuteOperationFails
    \/ Finish

SpecExtract == InitExtract /\ [][NextExtract]_vars

(***************************************************************************)
(* The apply pipeline next to another program that changes the workspace   *)
(* folder while the confirmation dialog is open                            *)
(***************************************************************************)
ExternalChange ==
    /\ pc = "confirm"
    /\ \E fs \in Disks : fs # disk /\ disk' = fs
    /\ UNCHANGED <<pc, mode, content, parseResult, tree, validation,
                   operations, validationErrors, fileOps, executed,
                   lastAppliedTree, targetPath, pathSafe, second, drift>>

NextRace ==
    \/ Next
    \/ ExternalChange

SpecRace == Init /\ [][NextRace]_vars

(***************************************************************************)
(* The command invoked again while its first run is in flight: the         *)
(* registered callback calls ApplyChangesCommand.execute() each time and   *)
(* nothing records that a run is going on                                  *)
(***************************************************************************)
\* the documents the command is run twice on: top-level lines only
TopLines == {l \in TreeLines : Head(l) = "BRANCH"}

InitConcurrent ==
    /\ content \in SeqsUpTo(TopLines, MaxLines)
    /\ Init

\* the second run from its parse to the start of its execute loop
\* (confirmBeforeApply off).  It is started before the first run has
\* executed anything: document and filesystem are those the first run
\* read, and parse, validate, extract and prepare are functions of the
\* two, so the second run passes validation and prepares the same list
SecondStart ==
    /\ pc \in {"confirm", "execute"}
    /\ executed = <<>>
    /\ second.pc = "idle"
    /\ second' = [pc |-> "execute", fileOps |-> fileOps, executed |-> <<>>]
    /\ UNCHANGED <<pc, mode, content, parseResult, tree, disk, validation,
                   operations, validationErrors, fileOps, executed,
                   lastAppliedTree, targetPath, pathSafe, drift>>

RunPc(run) == IF run = "first" THEN pc ELSE second.pc
RunFileOps(run) == IF run = "first" THEN fileOps ELSE second.fileOps
RunExecuted(run) == IF run = "first" THEN executed ELSE second.executed

\* one turn of the execute loop of either run, on the shared filesystem
ConcurrentExecuteOperation ==
    /\ \E run \in {"first", "second"} :
          /\ RunPc(run) = "execute"
          /\ Len(RunExecuted(run)) < Len(RunFileOps(run))
          /\ \E op \in {RunFileOps(run)[Len(RunExecuted(run)) + 1]} :
             \E res \in {executeOperation(disk, op, workspaceRoot)} :
             \E at \in {IF res.ok THEN "execute" ELSE "failed"} :
             \E done \in {Append(RunExecuted(run), [op |-> op, ok |-> res.ok])} :
                /\ disk' = res.fs
                /\ IF run = "first"
                   THEN pc' = at /\ executed' = done /\ second' = second
                   ELSE /\ second' = [pc |-> at, fileOps |-> second.fileOps,
                                      executed |-> done]
                        /\ pc' = pc /\ executed' = executed
    /\ UNCHANGED <<mode, content, parseResult, tree, validation, operations,
                   validationErrors, fileOps, lastAppliedTree, targetPath,
                   pathSafe, drift>>

\* the loop of either run is done: rescan, store the baseline
ConcurrentFinish ==
    /\ \E run \in {"first", "second"} :
          /\ RunPc(run) = "execute"
          /\ Len(RunExecuted(run)) = Len(RunFileOps(run))
          /\ IF run = "first"
             THEN pc' = "applied" /\ second' = second
             ELSE /\ second' = [pc |-> "applied", fileOps |-> second.fileOps,
                                executed |-> second.executed]
                  /\ pc' = pc
    /\ lastAppliedTree' =
          scanDirectory(disk, <<>>, workspaceRoot, ignorePatterns)
    /\ UNCHANGED <<mode, content, parseResult, tree, disk, validation,
                   operations, validationErrors, fileOps, executed,
                   targetPath, pathSafe, drift>>

NextConcurrent ==
    \/ Start
    \/ ApplyFromPreview
    \/ Parse
    \/ Validate
    \/ MismatchDialog
    \/ ExtractAndPrepare
    \/ Confirm
    \/ SecondStart
    \/ ConcurrentExecuteOperation
    \/ ExecuteOperationFails
    \/ ConcurrentFinish

SpecConcurrent == InitConcurrent /\ [][NextConcurrent]_vars

(***************************************************************************)
(* The commands on documents three levels deep                             *)
(***************************************************************************)
\* "│ │ ├─ ": the prefix of depth 2
Prefix2 == <<"PIPE", " ", "PIPE", " ", "BRANCH", "DASH", " ">>

Marks == {<<>>, MarkCreate, MarkDelete, MarkRename}

\* a folder, a folder in it, a file or folder in that
DeepDocuments ==
    {<<Prefix0 \o <<"a", "/">> \o m0, Prefix1 \o <<"a", "/">> \o m1,
       Prefix2 \o n \o m2>> :
        m0 \in Marks, m1 \in Marks, m2 \in Marks,
        n \in {<<"a">>, <<"a", "/">>}}

InitDeep ==
    /\ pc = "idle"
    /\ mode = "none"
    /\ content \in DeepDocuments
    /\ disk \in Disks
    /\ parseResult = [tree |-> NoTree, errors |-> <<>>]
    /\ tree = NoTree
    /\ validation = NoValidation
    /\ operations = <<>>
    /\ validationErrors = <<>>
    /\ fileOps = <<>>
    /\ executed = <<>>
    /\ lastAppliedTree = NoTree
    /\ targetPath = <<>>
    /\ pathSafe = FALSE
    /\ second = NoSecond
    /\ drift = NoDrift

SpecDeep == InitDeep /\ [][Next]_vars

(***************************************************************************)
(* Generating the tree of a folder and validating it at once               *)
(***************************************************************************)
\* the types readDirectory reports: File, Directory, SymbolicLink
FileTypes == {"file", "folder", "symlink"}

ScanDiskEntries ==
    {Entry(path, kind, "none") :
        path \in {<<<<"a">>>>, <<<<"b">>>>, <<<<"a">>, <<"a">>>>,
                  <<<<"a">>, <<"b">>>>},
        kind \in FileTypes}

ScanDisks == {fs \in SUBSET ScanDiskEntries :
                Cardinality(fs) <= MaxDiskEntries + 1 /\ IsFilesystem(fs)}

\* the ignore setting: nothing, or the name b
IgnoreSettings == {<<>>, <<<<"b">>>>}

InitScan ==
    /\ pc = "scan"
    /\ mode = "none"
    /\ content = <<>>
    /\ disk \in ScanDisks
    /\ parseResult = [tree |-> NoTree, errors |-> <<>>]
    /\ tree = NoTree
    /\ validation = NoValidation
    /\ operations = <<>>
    /\ validationErrors = <<>>
    /\ fileOps = <<>>
    /\ executed = <<>>
    /\ lastAppliedTree = NoTree
    /\ targetPath = <<>>
    /\ pathSafe = FALSE
    /\ second = NoSecond
    /\ drift = NoDrift

\* scanDirectory(root, root, ignore), then validate on the tree it returned
ScanAndValidate ==
    /\ pc = "scan"
    /\ \E patterns \in IgnoreSettings :
          /\ tree' = scanDirectory(disk, <<>>, workspaceRoot, patterns)
          /\ \E v \in {validate(tree', disk, workspaceRoot, patterns)} :
                validation' = [status |-> IF v.valid THEN "valid"
                                          ELSE "mismatch",
                               valid |-> v.valid, expected |-> v.expected,
                               actual |-> v.actual, added |-> v.added,
                               removed |-> v.removed]
    /\ pc' = "scanned"
    /\ UNCHANGED <<mode, content, parseResult, disk, operations,
                   validationErrors, fileOps, executed, lastAppliedTree,
                   targetPath, pathSafe, second, drift>>

SpecScan == InitScan /\ [][ScanAndValidate]_vars

(***************************************************************************)
(* Drift detection: the baseline tree against a fresh scan                 *)
(***************************************************************************)
RECURSIVE Size(_)
RECURSIVE SizeOfChildren(_)
SizeOfChildren(children) ==
    IF children = <<>> THEN 0
    ELSE Size(Head(children)) + SizeOfChildren(Tail(children))

\* the number of nodes of a tree
Size(t) == 1 + SizeOfChildren(t.children)

\* the tree of scanDirectory in scanTree.ts: every node is made with
\* id: uuidv4(), a value no node had before; the ids are the numbers from
\* first on, in the order the nodes are made
RECURSIVE WithIds(_, _)
RECURSIVE IdsOfChildren(_, _)
IdsOfChildren(children, first) ==
    IF children = <<>> THEN <<>>
    ELSE <<WithIds(Head(children), first)>>
         \o IdsOfChildren(Tail(children), first + Size(Head(children)))

WithIds(t, first) ==
    [id |-> first, name |-> t.name, type |-> t.type,
     children |-> IdsOfChildren(t.children, first + 1)]

\* DiffEngine.flattenTree: the nodes below tree with their paths
RECURSIVE flattenTree(_, _)
RECURSIVE FlattenChildren(_, _)
FlattenChildren(children, parentPath) ==
    IF children = <<>> THEN <<>>
    ELSE <<[node |-> Head(children),
            path |-> Append(parentPath, Head(children).name)]>>
         \o flattenTree(Head(children),
                        Append(parentPath, Head(children).name))
         \o FlattenChildren(Tail(children), parentPath)

flattenTree(t, parentPath) == FlattenChildren(t.children, parentPath)

\* byId.has(id) and byId.get(id): the last item set under the id
HasId(items, id) == \E k \in 1..Len(items) : items[k].node.id = id

GetById(items, id) ==
    items[CHOOSE k \in 1..Len(items) :
             /\ items[k].node.id = id
             /\ \A j \in (k + 1)..Len(items) : items[j].node.id # id]

\* DiffEngine.diff, the items in place of their nodes
diff(oldTree, newTree) ==
    [created |->
        SelectSeq(flattenTree(newTree, <<>>),
                  LAMBDA it : ~HasId(flattenTree(oldTree, <<>>), it.node.id)),
     renamed |->
        SelectSeq(flattenTree(newTree, <<>>),
                  LAMBDA it :
                     /\ HasId(flattenTree(oldTree, <<>>), it.node.id)
                     /\ Join(GetById(flattenTree(oldTree, <<>>),
                                     it.node.id).path, "/")
                        # Join(it.path, "/")),
     deleted |->
        SelectSeq(flattenTree(oldTree, <<>>),
                  LAMBDA it : ~HasId(flattenTree(newTree, <<>>), it.node.id))]

\* DiffEngine.isEmpty
isEmpty(d) == Len(d.created) = 0 /\ Len(d.deleted) = 0 /\ Len(d.renamed) = 0

\* DriftDetector.detectDrift
detectDrift(oldTree, currentFilesystemTree) ==
    [hasDrift |-> ~isEmpty(diff(oldTree, currentFilesystemTree)),
     addedFiles |->
        [k \in 1..Len(diff(oldTree, currentFilesystemTree).created) |->
           Join(diff(oldTree, currentFilesystemTree).created[k].path, "/")],
     deletedFiles |->
        [k \in 1..Len(diff(oldTree, currentFilesystemTree).deleted) |->
           Join(diff(oldTree, currentFilesystemTree).deleted[k].path, "/")],
     modifiedFiles |->
        [k \in 1..Len(diff(oldTree, currentFilesystemTree).renamed) |->
           Join(GetById(flattenTree(oldTree, <<>>),
                        diff(oldTree, currentFilesystemTree)
                           .renamed[k].node.id).path, "/")
           \o <<" ", "ARROW", " ">>
           \o Join(diff(oldTree, currentFilesystemTree).renamed[k].path, "/")]]

InitDrift ==
    /\ pc = "noBaseline"
    /\ mode = "none"
    /\ content = <<>>
    /\ disk \in Disks
    /\ parseResult = [tree |-> NoTree, errors |-> <<>>]
    /\ tree = NoTree
    /\ validation = NoValidation
    /\ operations = <<>>
    /\ validationErrors = <<>>
    /\ fileOps = <<>>
    /\ executed = <<>>
    /\ lastAppliedTree = NoTree
    /\ targetPath = <<>>
    /\ pathSafe = FALSE
    /\ second = NoSecond
    /\ drift = NoDrift

\* GenerateTreeCommand: scan the workspace and store the baseline
GenerateBaseline ==
    /\ pc = "noBaseline"
    /\ lastAppliedTree' =
          WithIds(scanDirectory(disk, <<>>, workspaceRoot, ignorePatterns), 1)
    /\ pc' = "baseline"
    /\ UNCHANGED <<mode, content, parseResult, tree, disk, validation,
                   operations, validationErrors, fileOps, executed,
                   targetPath, pathSafe, second, drift>>

\* something outside the tool changes the workspace
ChangeOutside ==
    /\ pc = "baseline"
    /\ \E fs \in Disks : fs # disk /\ disk' = fs
    /\ pc' = "changedOutside"
    /\ UNCHANGED <<mode, content, parseResult, tree, validation, operations,
                   validationErrors, fileOps, executed, lastAppliedTree,
                   targetPath, pathSafe, second, drift>>

\* the command scans again and compares the scan with the baseline
DetectDrift ==
    /\ pc \in {"baseline", "changedOutside"}
    /\ tree' = WithIds(scanDirectory(disk, <<>>, workspaceRoot,
                                     ignorePatterns),
                       Size(lastAppliedTree) + 1)
    /\ drift' = detectDrift(lastAppliedTree, tree')
    /\ pc' = "driftChecked"
    /\ UNCHANGED <<mode, content, parseResult, disk, validation, operations,
                   validationErrors, fileOps, executed, lastAppliedTree,
                   targetPath, pathSafe, second>>

NextDrift ==
    \/ GenerateBaseline
    \/ ChangeOutside
    \/ DetectDrift

SpecDrift == InitDrift /\ [][NextDrift]_vars

(***************************************************************************)
(* Properties                                                              *)
(***************************************************************************)
ToSet(q) == {q[i] : i \in 1..Len(q)}

\* the nodes of a tree, the root included
RECURSIVE NodesOf(_)
NodesOf(t) == {t} \cup UNION {NodesOf(t.children[i]) : i \in 1..Len(t.children)}

\* the paths of all nodes below t that are not themselves marked create
RECURSIVE NonCreatePaths(_, _)
RECURSIVE NonCreateOfChildren(_, _)
NonCreateOfChildren(children, prefix) ==
    IF children = <<>> THEN <<>>
    ELSE LET child == Head(children)
             childPath == IF prefix # <<>> THEN prefix \o <<"/">> \o child.name
                          ELSE child.name
         IN  (IF child.operation # "create" THEN <<childPath>> ELSE <<>>)
             \o NonCreatePaths(child, childPath)
             \o NonCreateOfChildren(Tail(children), prefix)

NonCreatePaths(t, prefix) == NonCreateOfChildren(t.children, prefix)

\* the paths of the entries of a filesystem
PathsOnDisk(fs) == {Join(e.path, "/") : e \in fs}

AfterValidation ==
    {"extract", "operationErrors", "noOperations", "previewShown", "confirm",
     "cancelled", "execute", "failed", "applied"}

\* C1: extraction, scheduling and mutation happen only after validate
\* returned valid in the same run; when added or removed is not empty the
\* run has extracted nothing and performed no mutation.
C1_GateBeforeExtraction ==
    /\ (pc \in AfterValidation \/ operations # <<>> \/ fileOps # <<>>
        \/ executed # <<>>) => validation.status = "valid"
    /\ (validation.added # <<>> \/ validation.removed # <<>>) =>
          /\ operations = <<>> /\ fileOps = <<>> /\ executed = <<>>
          /\ pc \in {"mismatch", "mismatchReturned", "regenerated"}

\* a run that ended at the gate although the tree carried operations
C1_Witness ==
    /\ pc \in {"mismatchReturned", "regenerated"}
    /\ validation.added # <<>>
    /\ extract(tree) # <<>>

IsDescendant(q, path) == StartsWith(q, path \o <<"/">>) /\ Len(q) > Len(path) + 1

\* C2: in the list prepareOperations returns, a Create-Folder of P comes
\* before every Create of a descendant of P, and a Delete-Folder of P comes
\* after every Delete of a descendant of P.
C2_OrderingProperty ==
    pc = "prepared" =>
       \A i, j \in 1..Len(fileOps) :
          LET f == fileOps[i]
              g == fileOps[j]
          IN  /\ (f.type = "create" /\ f.nodeType = "folder"
                  /\ g.type = "create" /\ IsDescendant(g.path, f.path)) => i < j
              /\ (f.type = "delete" /\ f.nodeType = "folder"
                  /\ g.type = "delete" /\ IsDescendant(g.path, f.path)) => j < i

\* the input named the parents after their children for the creations and
\* before them for the deletions
C2_Witness ==
    /\ pc = "prepared"
    /\ Len(operations) = 3
    /\ operations[1].operation = "delete" /\ operations[1].nodeType = "folder"
    /\ operations[1].path = <<<<"a">>>>
    /\ operations[2].operation = "delete" /\ operations[2].nodeType = "folder"
    /\ operations[2].path = <<<<"a">>, <<"a">>>>
    /\ operations[3].operation = "create"

Bucket(op) ==
    IF op.type = "create" /\ op.nodeType = "folder" THEN 1
    ELSE IF op.type = "create" THEN 2
    ELSE IF op.type = "rename" THEN 3
    ELSE IF op.nodeType = "file" THEN 4
    ELSE 5

\* the bucket an extracted operation is bound for
BucketOfNode(op) ==
    Bucket([type |-> op.operation, nodeType |-> op.nodeType])

\* C3: the scheduled list is the five buckets one after the other: create
\* folders, create files, renames, delete files, delete folders; the
\* buckets hold exactly the operations given.
C3_FiveBuckets ==
    pc = "prepared" =>
       /\ \A i, j \in 1..Len(fileOps) :
             i < j => Bucket(fileOps[i]) <= Bucket(fileOps[j])
       /\ \A b \in 1..5 :
             Cardinality({i \in 1..Len(fileOps) : Bucket(fileOps[i]) = b})
             = Cardinality({i \in 1..Len(operations) :
                               BucketOfNode(operations[i]) = b})

\* three buckets, given in the reverse of their fixed sequence
C3_Witness ==
    /\ pc = "prepared"
    /\ Len(operations) = 3
    /\ BucketOfNode(operations[1]) = 5
    /\ BucketOfNode(operations[2]) = 3
    /\ BucketOfNode(operations[3]) = 1

\* C4: validate reports a mismatch exactly when the sorted list of the
\* paths of the tree's non-create nodes differs from the sorted list of
\* the paths on disk.
C4_MismatchIffListsDiffer ==
    validation.status # "none" =>
       ((validation.status = "mismatch")
        <=> (SortStrings(NonCreatePaths(tree, <<>>)) # validation.actual))

\* C5: expectedPaths is the set of the paths of all nodes that are not
\* themselves marked create, those below a create-marked folder included.
C5_ExpectedIsAllNonCreate ==
    validation.status # "none" =>
       ToSet(validation.expected) = ToSet(NonCreatePaths(tree, <<>>))

\* C6: in a mismatch report, added is the paths on disk that are not
\* expected, removed is the expected paths that are not on disk; the two
\* are disjoint and make up the symmetric difference.
C6_AddedRemovedPartition ==
    validation.status = "mismatch" =>
       LET A == PathsOnDisk(disk)
           E == ToSet(validation.expected)
       IN  /\ ToSet(validation.actual) = A
           /\ ToSet(validation.added) = A \ E
           /\ ToSet(validation.removed) = E \ A
           /\ ToSet(validation.added) \cap ToSet(validation.removed) = {}
           /\ ToSet(validation.added) \cup ToSet(validation.removed)
              = (A \cup E) \ (A \cap E)

\* a report with something added and something removed
C6_Witness ==
    /\ validation.status = "mismatch"
    /\ validation.added # <<>>
    /\ validation.removed # <<>>

\* a marker starts at position i of s: [+], [-] or [~ x] with a name x
IsMarkerAt(s, i) ==
    \/ i + 2 <= Len(s) /\ SubSeq(s, i, i + 2) \in {Mplus, Mminus}
    \/ \E j \in (i + 4)..Len(s) :
          /\ s[i] = "[" /\ s[i + 1] = "~" /\ s[i + 2] = " " /\ s[j] = "]"
          /\ \A k \in (i + 3)..(j - 1) : s[k] \notin {" ", "[", "]"}

MarkerOccurrences(s) == Cardinality({i \in 1..Len(s) : IsMarkerAt(s, i)})

HasErrorAtLine(i) ==
    \E k \in 1..Len(parseResult.errors) : parseResult.errors[k].line = i

\* C7: every line with two or more markers makes parse report an error for
\* that line and return no tree, with or without a tree symbol.
C7_TwoMarkersRejected ==
    pc # "parse" =>
       \A i \in 1..Len(content) :
          MarkerOccurrences(content[i]) >= 2 =>
             parseResult.tree.type = "null" /\ HasErrorAtLine(i)

ResolvesInside(p, root) ==
    LET r == ResolveSegs(root, p)
        rootSegs == NormalizeSegs(Split(root, "/"), <<>>)
    IN  Len(r) >= Len(rootSegs) /\ SubSeq(r, 1, Len(rootSegs)) = rootSegs

\* C9: isPathSafe is false for absolute paths and for paths that resolve
\* outside the root, and true for every relative path that resolves
\* inside it, a name that merely begins with two dots included.
C9_SafeIffResolvesInside ==
    pc = "pathChecked" =>
       (pathSafe <=> (~IsAbsolute(targetPath)
                      /\ ResolvesInside(targetPath, workspaceRoot)))

ReservedChars == {"<", ">", ":", "QUOTE", "|", "?", "*"}
ControlChars == {"TAB"}

\* the name is empty or blank, "." or "..", or holds a separator, a
\* reserved character or a control character
NameFails(name) ==
    \/ name = <<>>
    \/ \A i \in 1..Len(name) : name[i] \in WhiteSpace
    \/ name \in {<<".">>, <<".", ".">>}
    \/ \E i \in 1..Len(name) :
          name[i] \in {"/", "\\"} \cup ReservedChars \cup ControlChars

\* the name a line of the documents gives its node
NameOfText(n) == IF EndsWith(n, <<"/">>) THEN SubSeq(n, 1, Len(n) - 1) ELSE n

\* C10: no tree parse returns holds a node whose name fails the name rule,
\* and a tree line that names such a node is rejected with an error for
\* that line.
C10_NoInvalidNames ==
    /\ pc = "validate" =>
          \A n \in NodesOf(parseResult.tree) :
             ~NameFails(n.name) /\ (n.renameTo # <<>> => ~NameFails(n.renameTo))
    /\ pc # "parse" =>
          \A i \in 1..Len(content) :
             \A p \in {Prefix0, Prefix1}, n \in NameTexts,
                x \in {<<>>} \cup {<<" ">> \o m : m \in Markers} :
                (content[i] = p \o n \o x /\ NameFails(NameOfText(n))) =>
                   parseResult.tree.type = "null" /\ HasErrorAtLine(i)

\* a nested line named ../a was rejected for its name
C10_Witness ==
    /\ pc = "parseErrors"
    /\ \E i \in 1..Len(content) :
          /\ content[i] = Prefix1 \o <<".", ".", "/", "a">> \o <<" ">> \o Mplus
          /\ \E k \in 1..Len(parseResult.errors) :
                /\ parseResult.errors[k].line = i
                /\ parseResult.errors[k].message = "Invalid node name"

\* the lines parse hands to parseLine and parseLine rejects
ErroneousLines ==
    {i \in 1..Len(content) :
        ~IsSkipped(content[i]) /\ parseLine(content[i], i).error.message # "none"}

\* C11: parse returns either a tree and no errors or no tree and at least
\* one error; every line in error contributes one error with its line
\* number, a tree line with two markers among them.
C11_NoneOrAll ==
    pc # "parse" =>
       /\ \/ parseResult.tree.type # "null" /\ parseResult.errors = <<>>
          \/ parseResult.tree.type = "null" /\ parseResult.errors # <<>>
       /\ \A i \in ErroneousLines : HasErrorAtLine(i)
       /\ ErroneousLines # {} =>
             Len(parseResult.errors) = Cardinality(ErroneousLines)
       /\ \A i \in 1..Len(content) :
             (hasTreeSymbol(content[i]) /\ MarkerOccurrences(content[i]) >= 2)
                => HasErrorAtLine(i)

\* two lines in error, each reported with its own line number
C11_Witness ==
    /\ pc = "parseErrors"
    /\ Len(parseResult.errors) >= 2
    /\ parseResult.errors[1].line = 1
    /\ parseResult.errors[2].line = 2
    /\ parseResult.errors[1].message # parseResult.errors[2].message

\* s holds a rename marker without a target: "[~", whitespace only, "]"
HasEmptyRenameMarker(s) ==
    \E i \in 1..Len(s) : \E j \in (i + 2)..Len(s) :
       /\ s[i] = "[" /\ s[i + 1] = "~" /\ s[j] = "]"
       /\ \A k \in (i + 2)..(j - 1) : s[k] \in WhiteSpace

\* C12: a tree line with a rename marker without target is rejected with
\* an error for its line; no node of a returned tree is a rename without a
\* valid target, and no node's name holds such a marker.
C12_RenameWithoutTargetRejected ==
    pc # "parse" =>
       /\ \A i \in 1..Len(content) :
             (hasTreeSymbol(content[i]) /\ HasEmptyRenameMarker(content[i])) =>
                parseResult.tree.type = "null" /\ HasErrorAtLine(i)
       /\ \A n \in NodesOf(parseResult.tree) :
             /\ n.operation = "rename" =>
                   n.renameTo # <<>> /\ isValidNodeName(n.renameTo)
             /\ ~HasEmptyRenameMarker(n.name)

\* a marker starts at position i of t and ends t
MarkerAtEnd(t, i) ==
    \/ i + 2 = Len(t) /\ SubSeq(t, i, i + 2) \in {Mplus, Mminus}
    \/ /\ i + 4 <= Len(t)
       /\ t[i] = "[" /\ t[i + 1] = "~" /\ t[i + 2] = " " /\ t[Len(t)] = "]"
       /\ \A k \in (i + 3)..(Len(t) - 1) : t[k] \notin {" ", "[", "]"}

\* the line ends with a marker that exactly one space separates from the
\* name
WellMarked(s) ==
    LET t == TrimEnd(s)
    IN  \E i \in 3..Len(t) :
           MarkerAtEnd(t, i) /\ t[i - 1] = " " /\ t[i - 2] \notin WhiteSpace

\* the number of nodes of t that carry an operation
RECURSIVE CountMarked(_)
RECURSIVE CountMarkedIn(_)
CountMarkedIn(children) ==
    IF children = <<>> THEN 0
    ELSE CountMarked(Head(children)) + CountMarkedIn(Tail(children))

CountMarked(t) ==
    (IF t.operation # "none" THEN 1 ELSE 0) + CountMarkedIn(t.children)

\* C13: only a line that ends with a marker preceded by exactly one space
\* gives its node an operation: a returned tree has no more marked nodes
\* than the document has such lines.
C13_ExactlyOneSpace ==
    pc = "validate" =>
       CountMarked(parseResult.tree)
       <= Cardinality({i \in 1..Len(content) : WellMarked(content[i])})

\* line k of the document as parseLine reads it, when it is parsed at all
IsParsedLine(k) ==
    ~IsSkipped(content[k]) /\ parseLine(content[k], k).error.message = "none"

LevelOf(k) == parseLine(content[k], k).line.indent \div 2

\* the levels of the folders that are open after lines 1..k, the root
\* (level -1) first
RECURSIVE OpenLevels(_)
OpenLevels(k) ==
    IF k = 0 THEN <<-1>>
    ELSE IF ~IsParsedLine(k) THEN OpenLevels(k - 1)
    ELSE LET d == LevelOf(k)
             before == OpenLevels(k - 1)
             kept == SelectSeq(before, LAMBDA x : x < d)
         IN  IF parseLine(content[k], k).line.isFolder THEN Append(kept, d)
             ELSE kept

\* line k has no valid parent: the nearest open folder above it is not the
\* folder one level up (the line jumps a level, or sits under a file)
HasNoParent(k) ==
    /\ IsParsedLine(k)
    /\ LET d == LevelOf(k)
           kept == SelectSeq(OpenLevels(k - 1), LAMBDA x : x < d)
       IN  kept[Len(kept)] # d - 1

\* C14: a line whose indentation gives it no valid parent makes parse
\* return no tree and an error for that line.
C14_BadIndentationRejected ==
    pc # "parse" =>
       \A k \in 1..Len(content) :
          HasNoParent(k) => parseResult.tree.type = "null" /\ HasErrorAtLine(k)

\* some folder of t holds two children of the same name
RECURSIVE HasDuplicateSiblings(_)
HasDuplicateSiblings(t) ==
    \/ \E i, j \in 1..Len(t.children) :
          i # j /\ t.children[i].name = t.children[j].name
    \/ \E i \in 1..Len(t.children) : HasDuplicateSiblings(t.children[i])

\* C15: the tree that structure validation, extraction and scheduling
\* work on never holds two siblings of the same name.
C15_NoDuplicateSiblings ==
    pc \notin {"idle", "parse", "parseErrors"} => ~HasDuplicateSiblings(tree)

\* the nodes of t the names of path lead to
RECURSIVE NodesAtPath(_, _)
NodesAtPath(t, path) ==
    IF path = <<>> THEN {t}
    ELSE UNION {NodesAtPath(t.children[i], Tail(path)) :
                  i \in {j \in 1..Len(t.children) :
                            t.children[j].name = Head(path)}}

\* the number of nodes of t marked rename
RECURSIVE CountRenames(_)
RECURSIVE CountRenamesIn(_)
CountRenamesIn(children) ==
    IF children = <<>> THEN 0
    ELSE CountRenames(Head(children)) + CountRenamesIn(Tail(children))

CountRenames(t) ==
    (IF t.operation = "rename" THEN 1 ELSE 0) + CountRenamesIn(t.children)

AfterExtraction ==
    {"operationErrors", "noOperations", "previewShown", "confirm",
     "cancelled", "execute", "failed", "applied"}

\* C16: extraction emits one record for each node marked rename; the
\* record carries the node's path, and its newPath is that path with only
\* the last name replaced by the rename target.
C16_RenameNewPath ==
    pc \in AfterExtraction =>
       /\ Cardinality({k \in 1..Len(operations) :
                         operations[k].operation = "rename"})
          = CountRenames(tree)
       /\ \A k \in 1..Len(operations) :
             LET op == operations[k]
             IN  op.operation = "rename" =>
                    /\ \E n \in NodesAtPath(tree, op.path) :
                          n.operation = "rename" /\ n.renameTo = op.renameTo
                    /\ op.renameTo # <<>> =>
                          /\ op.hasNewPath
                          /\ Len(op.newPath) = Len(op.path)
                          /\ op.newPath[Len(op.newPath)] = op.renameTo
                          /\ \A j \in 1..(Len(op.path) - 1) :
                                op.newPath[j] = op.path[j]

\* the file a in the folder a was marked for a rename to b
C16_Witness ==
    /\ pc \in {"previewShown", "confirm", "execute", "applied"}
    /\ \E k \in 1..Len(operations) :
          /\ operations[k].operation = "rename"
          /\ operations[k].path = <<<<"a">>, <<"a">>>>
          /\ operations[k].newPath = <<<<"a">>, <<"b">>>>

\* a step of a run keeps to fail-fast execution without rollback
FailFastStep ==
    /\ pc # "failed"
    /\ executed' = executed => disk' = disk
    /\ executed' # executed =>
          /\ pc = "execute"
          /\ Len(executed') = Len(executed) + 1
          /\ SubSeq(executed', 1, Len(executed)) = executed
          /\ \A i \in 1..Len(executed) : executed[i].ok
          /\ executed'[Len(executed')].op = fileOps[Len(executed')]
          /\ IF executed'[Len(executed')].ok
             THEN pc' = "execute"
             ELSE pc' = "failed" /\ disk \subseteq disk'

\* C17: the records run in the order of the list, one at a time; when one
\* fails the run ends there, no later record runs, no step follows, and
\* the failing step takes nothing away from what the earlier records left
\* on the filesystem.
C17_FailFastNoRollback == [][FailFastStep]_vars

\* the second of two records failed; the file the first one wrote is there
C17_Witness ==
    /\ pc = "failed"
    /\ Len(executed) = 2
    /\ executed[1].ok /\ executed[1].op.type = "create"
    /\ ~executed[2].ok
    /\ \E e \in disk : e.data = "empty"

\* what the catch of the apply command shows: the text "Apply failed" and
\* the message of the error; it names no record that completed
ApplyFailedMessage ==
    [title |-> "Apply failed",
     partialSuccess |-> FALSE,
     completed |-> <<>>]

\* the records that ran to their end
Completed == SelectSeq(executed, LAMBDA r : r.ok)

\* C18: when a record fails after others completed, the report says that
\* the run succeeded in part and names exactly the records that completed.
C18_PartialSuccessReported ==
    (pc = "failed" /\ Len(Completed) > 0) =>
       /\ ApplyFailedMessage.partialSuccess
       /\ ApplyFailedMessage.completed
          = [i \in 1..Len(Completed) |-> Completed[i].op]

\* a step of a run: the preview changes nothing on the filesystem, and the
\* apply that follows a preview of the same tree on the same filesystem
\* prepares the list the preview showed
PreviewStep ==
    /\ mode = "preview" =>
          disk' = disk /\ executed = <<>> /\ executed' = <<>>
    /\ (mode = "apply" /\ pc = "extract" /\ fileOps # <<>>) =>
          pc' \in {"confirm", "execute"} /\ fileOps' = fileOps

ConfirmedDeleteStep ==
    (/\ pc # "execute"
     /\ pc' = "execute"
     /\ \E k \in 1..Len(fileOps') : fileOps'[k].type = "delete")
    => pc = "confirm"

\* C20: whatever the configuration, apply starts executing a list with a
\* delete in it only after the user chose "Apply" in the confirmation
\* dialog of that run.
C20_DeletesRequireConfirmation == [][ConfirmedDeleteStep]_vars

\* the step that runs the first record finds the filesystem as the
\* structure validation of the run saw it
FreshStructureStep ==
    (executed = <<>> /\ executed' # <<>>) =>
       PathsOnDisk(disk) = ToSet(validation.actual)

\* C21: apply never starts executing its operations on a filesystem that
\* changed since the structure validation of the run.
C21_NoStaleApply == [][FreshStructureStep]_vars

\* C22: applies are serialized: while one apply is in flight (validated and
\* waiting for the confirmation, or executing), no second apply has started
InFlight == {"confirm", "execute"}

C22_AppliesSerialized == pc \in InFlight => second.pc = "idle"

\* C23: a step of the execute loop that runs a create-file operation whose
\* target exists reports a failure and leaves the filesystem as it was: a
\* create never truncates or overwrites an existing file
CreateOnExistingStep ==
    (/\ pc = "execute"
     /\ Len(executed') = Len(executed) + 1
     /\ fileOps[Len(executed) + 1].type = "create"
     /\ fileOps[Len(executed) + 1].nodeType = "file"
     /\ Exists(disk, RelSegs(fileOps[Len(executed) + 1].path, workspaceRoot)))
    => (~executed'[Len(executed')].ok /\ disk' = disk)

C23_CreateNeverOverwrites == [][CreateOnExistingStep]_vars

\* C24: in a run whose tree has no two siblings of one name and whose
\* validation expected every node that is not marked create, every rename
\* and every delete the execute loop reaches (all earlier operations having
\* succeeded) finds its source path on the filesystem
SourceExistsStep ==
    (/\ pc = "execute"
     /\ Len(executed') = Len(executed) + 1
     /\ ~HasDuplicateSiblings(tree)
     /\ ToSet(validation.expected) = ToSet(NonCreatePaths(tree, <<>>))
     /\ fileOps[Len(executed) + 1].type \in {"rename", "delete"})
    => Exists(disk, RelSegs(fileOps[Len(executed) + 1].path, workspaceRoot))

C24_SourcesExist == [][SourceExistsStep]_vars

\* the proper ancestors of a path
ProperAncestors(path) == {SubSeq(path, 1, k) : k \in 1..(Len(path) - 1)}

\* C25: once validation has passed and the list is scheduled, every proper
\* ancestor folder of the path of a create is among the expected paths or
\* is created by a create-folder placed earlier in the list
C25_ParentsBeforeChildren ==
    \A k \in 1..Len(fileOps) :
       fileOps[k].type = "create" =>
          \A q \in ProperAncestors(RelSegs(fileOps[k].path, workspaceRoot)) :
             \/ Join(q, "/") \in ToSet(validation.expected)
             \/ \E j \in 1..(k - 1) :
                   /\ fileOps[j].type = "create"
                   /\ fileOps[j].nodeType = "folder"
                   /\ RelSegs(fileOps[j].path, workspaceRoot) = q

\* the nodes below t that are unmarked and have only unmarked ancestors,
\* as [path, type]
RECURSIVE FrameNodes(_, _)
FrameNodes(t, prefix) ==
    UNION {IF t.children[i].operation # "none" THEN {}
           ELSE {[path |-> Append(prefix, t.children[i].name),
                  type |-> t.children[i].type]}
                \cup FrameNodes(t.children[i],
                                Append(prefix, t.children[i].name)) :
           i \in 1..Len(t.children)}

\* C26: after an apply that completed without error every unmarked node
\* whose ancestors are all unmarked is on the filesystem at its path with
\* its kind
C26_UnmarkedNodesKept ==
    (pc = "applied" /\ mode = "apply") =>
       \A n \in FrameNodes(tree, <<>>) :
          Exists(disk, n.path) /\ KindOf(disk, n.path) = n.type

\* the lines that are no comments and end in a marker
MarkedLines ==
    {i \in 1..Len(content) :
        /\ ~StartsWith(Trim(content[i]), <<"#">>)
        /\ ~StartsWith(Trim(content[i]), <<"<", "!", "-", "-">>)
        /\ \E k \in 1..Len(TrimEnd(content[i])) :
              MarkerAtEnd(TrimEnd(content[i]), k)}

\* C27: no marked line is dropped silently: when parse returns a tree,
\* every line that is no comment and ends in a marker has given the tree
\* a node that carries an operation
C27_NoMarkedLineDropped ==
    (pc # "parse" /\ parseResult.tree.type # "null") =>
       CountMarked(parseResult.tree) >= Cardinality(MarkedLines)

\* the nodes below t that are not marked create and have no ancestor marked
\* create, as [path, type]
RECURSIVE DeclaredNodes(_, _)
DeclaredNodes(t, prefix) ==
    UNION {IF t.children[i].operation = "create" THEN {}
           ELSE {[path |-> Append(prefix, t.children[i].name),
                  type |-> t.children[i].type]}
                \cup DeclaredNodes(t.children[i],
                                   Append(prefix, t.children[i].name)) :
           i \in 1..Len(t.children)}

\* C28: when validate has returned valid, the entry on the filesystem at
\* the path of every node that is not to be created has the kind the node
\* declares
C28_KindsAgree ==
    (pc = "extract" /\ validation.valid) =>
       \A n \in DeclaredNodes(tree, <<>>) :
          Exists(disk, n.path) => KindOf(disk, n.path) = n.type

\* C29: the tree scanDirectory returns for a filesystem passes validate on
\* that filesystem under the same ignore setting
C29_GeneratedTreeValidates == pc = "scanned" => validation.valid

\* the paths and kinds of the nodes below a scanned tree
PathsAndKinds(t) ==
    {[path |-> flattenTree(t, <<>>)[k].path,
      type |-> flattenTree(t, <<>>)[k].node.type] :
        k \in 1..Len(flattenTree(t, <<>>))}

\* C30: when the rescan finds the paths and kinds the baseline scan found,
\* detectDrift reports no drift
C30_NoDriftWhenUnchanged ==
    (pc = "driftChecked"
     /\ PathsAndKinds(lastAppliedTree) = PathsAndKinds(tree))
    => ~drift.hasDrift

====
